---- MODULE Spec2Model ----
(***************************************************************************)
(* Model of the influenza autocuration pipeline (src/Autocuration.py):     *)
(* the mutation-flagging engine InDelSubs, the Curation facade that        *)
(* composes classifier, reference loaders, ambiguity screen, aligner and   *)
(* flag engine, and the Table 6 ledger updater.                            *)
(*                                                                         *)
(* Strings are sequences of one-character strings.  Python's 0-based       *)
(* indices are kept: column i of a row s is s[i+1].  A position string     *)
(* such as "5", "5..6" or "7.." is the record built by Str1, Str2 and      *)
(* StrOpen.  A flag is the source's 5-tuple                                *)
(* <<Flag, Profile Position, Query Position, Variant, Length>>.            *)
(***************************************************************************)
EXTENDS Integers, Sequences, FiniteSets, TLC

VARIABLES
    pc,              \* position in the main loop body / Curation.__init__
    workers,         \* the processes of the program run side by side, if any
    blast_result,    \* content of blast/blast_result.xml
    args,            \* the --flag argument of the run ("" when absent)
    today,           \* datetime.today(): [month, day]
    query,           \* query.fasta: [defline, sequence]
    aligner,         \* the alignment the external aligner computes for the query
    accession,       \* the accession read from query.fasta
    attrs,           \* the attributes assigned on the Curation object so far
    profile,         \* self.profile
    identity,        \* self.identity (percent), or Unknown
    strain_name,     \* self.strain_name
    boundary_df,     \* parsed boundary rows of the strain
    lookup_df,       \* parsed whitelist rows of the profile
    ambig_flags,     \* self.ambig_flags
    alignment,       \* content of profiles/precomputed_alignment.fasta
    del_flags,       \* self.del_flags
    ins_flags,       \* self.ins_flags
    sub_flags,       \* self.sub_flags
    mut_flags,       \* self.mut_flags
    outputs,         \* output directory: accession -> saved alignment
    report,          \* what the accessors returned to the main program
    table6           \* the ledger file

vars == <<pc, workers, blast_result, args, today, query, aligner, accession, attrs, profile, identity, strain_name, boundary_df, lookup_df,
          ambig_flags, alignment, del_flags, ins_flags, sub_flags, mut_flags,
          outputs, report, table6>>

(***************************************************************************)
(* Bounds of the model.                                                    *)
(***************************************************************************)
\* non-match columns (mismatch, deletion, accepted gap, insertion) of an
\* alignment handed directly to the flag engine
MaxEvents == 3
\* non-match columns of an alignment produced inside the whole pipeline
MaxPipeEvents == 1

(***************************************************************************)
(* Small helpers.                                                          *)
(***************************************************************************)
Min(a, b) == IF a < b THEN a ELSE b

RECURSIVE ConcatAll(_)
ConcatAll(ss) == IF ss = <<>> THEN <<>> ELSE Head(ss) \o ConcatAll(Tail(ss))

RECURSIVE SumSeq(_)
SumSeq(s) == IF s = <<>> THEN 0 ELSE Head(s) + SumSeq(Tail(s))

\* list comprehension [x for x in s if P(x)]
RECURSIVE Filter(_, _)
Filter(s, keep) ==
    IF s = <<>> THEN <<>>
    ELSE (IF Head(s) \in keep THEN <<Head(s)>> ELSE <<>>) \o Filter(Tail(s), keep)

\* Python slice s[a:b] for 0 <= a
Slice(s, a, b) == SubSeq(s, a + 1, Min(b, Len(s)))

\* str.upper() on one character
UpperChar(ch) ==
    CASE ch = "a" -> "A"
      [] ch = "c" -> "C"
      [] ch = "g" -> "G"
      [] ch = "t" -> "T"
      [] ch = "n" -> "N"
      [] OTHER -> ch

Upper(s) == [i \in 1..Len(s) |-> UpperChar(s[i])]

\* str(a), str(a)+".."+str(b), str(a)+".."
Str1(a) == [nums |-> <<a>>, dots |-> FALSE]
Str2(a, b) == [nums |-> <<a, b>>, dots |-> TRUE]
StrOpen(a) == [nums |-> <<a>>, dots |-> TRUE]
\* the empty string
StrEmpty == [nums |-> <<>>, dots |-> FALSE]

\* sorted(S) for a finite set of integers
RECURSIVE SortedSeq(_)
SortedSeq(S) ==
    IF S = {} THEN <<>>
    ELSE LET m == CHOOSE x \in S : \A y \in S : x <= y
         IN <<m>> \o SortedSeq(S \ {m})

\* groupby(enumerate(sorted), lambda ix: ix[0] - ix[1]): the maximal runs of
\* consecutive integers of the sorted list, in increasing order
Groups(S) ==
    LET starts == SortedSeq({i \in S : (i - 1) \notin S})
        last(s) == CHOOSE e \in S : /\ e >= s
                                    /\ \A k \in s..e : k \in S
                                    /\ (e + 1) \notin S
    IN [k \in 1..Len(starts) |-> [j \in 1..(last(starts[k]) - starts[k] + 1) |-> starts[k] + j - 1]]

(***************************************************************************)
(* InDelSubs.__init__: the column sets of an alignment.  `sequences` is    *)
(* the list of rows of the alignment file; the last row is the query.      *)
(***************************************************************************)
Dashes(seq) == {i \in 0..(Len(seq) - 1) : seq[i + 1] = "-"}

\* the column sets when a gap of a profile row is not accepted in the query
InDelSubsInit_NoAccepted(sequences) ==
    LET query_seq == sequences[Len(sequences)]
        profile_seqs == SubSeq(sequences, 1, Len(sequences) - 1)
        nkdp == Dashes(query_seq)
        first_seq_dashes == Dashes(profile_seqs[1])
        profile_dash_intsct ==
            {i \in first_seq_dashes : \A k \in 2..Len(profile_seqs) : i \in Dashes(profile_seqs[k])}
        nkip == profile_dash_intsct \ nkdp
    IN [nkdp |-> nkdp,
        nkip |-> nkip,
        nkadp |-> {},
        query_seq |-> query_seq,
        profile_seqs |-> profile_seqs,
        del_groups |-> Groups(nkdp),
        ins_groups |-> Groups(nkip)]

InDelSubsInit(sequences) ==
    LET query_seq == sequences[Len(sequences)]
        profile_seqs == SubSeq(sequences, 1, Len(sequences) - 1)
        nkdp == Dashes(query_seq)
        first_seq_dashes == Dashes(profile_seqs[1])
        profile_dash_union ==
            first_seq_dashes \cup UNION {Dashes(profile_seqs[k]) : k \in 2..Len(profile_seqs)}
        profile_dash_intsct ==
            {i \in first_seq_dashes : \A k \in 2..Len(profile_seqs) : i \in Dashes(profile_seqs[k])}
        nkip == profile_dash_intsct \ nkdp
        nkadp == profile_dash_union \ nkip
        flag_dels == nkdp \ nkadp
    IN [nkdp |-> nkdp,
        nkip |-> nkip,
        nkadp |-> nkadp,
        query_seq |-> query_seq,
        profile_seqs |-> profile_seqs,
        del_groups |-> Groups(flag_dels),
        ins_groups |-> Groups(nkip)]

\* len([i for i in S if i < j]) and len([i for i in S if i <= j])
CountLt(S, j) == Cardinality({i \in S : i < j})
CountLe(S, j) == Cardinality({i \in S : i <= j})

\* a whitelist test that looks at the label only
check_lookup_LabelOnly(lookup, flag, start, end) ==
    LET table == {r \in lookup : r.Flag = flag}
    IN IF Cardinality(table) > 0 THEN "PASS" ELSE "FAIL"

(***************************************************************************)
(* InDelSubs.check_lookup                                                  *)
(***************************************************************************)
check_lookup(lookup, flag, start, end) ==
    LET table == {r \in lookup : r.Flag = flag /\ r.Start <= start /\ r.End >= end}
    IN IF Cardinality(table) > 0 THEN "PASS" ELSE "FAIL"

(***************************************************************************)
(* InDelSubs.deletion_flags                                                *)
(***************************************************************************)
\* the values of a run without the restriction of its positions to the region
DelRegion_Unrestricted(self, pos, reg) ==
    LET profile_del == [k \in 1..Len(pos) |-> (pos[k] - CountLt(self.nkip, pos[k])) + 1]
        query_del == [k \in 1..Len(pos) |-> (pos[k] - CountLe(self.nkdp, pos[k])) + 1]
    IN [selected |-> reg.Start <= profile_del[Len(profile_del)] /\ reg.End >= profile_del[1],
        region_dels_p |-> profile_del,
        region_dels_q |-> query_del]

\* the per-run, per-region values of the loop body (lines 540-562)
DelRegion(self, pos, reg) ==
    LET all_profile_ins == {<<j, (j - CountLe(self.nkip, j)) + 1>> : j \in self.nkip}
        all_profile_del == {<<j, (j - CountLt(self.nkip, j)) + 1>> : j \in self.nkdp}
        profile_del == [k \in 1..Len(pos) |-> (pos[k] - CountLt(self.nkip, pos[k])) + 1]
        query_del == [k \in 1..Len(pos) |-> (pos[k] - CountLe(self.nkdp, pos[k])) + 1]
        start_p == reg.Start
        end_p == reg.End
        start_q == start_p + Cardinality({x \in all_profile_ins : x[2] < start_p})
                           - Cardinality({x \in all_profile_del : x[2] <= start_p})
        end_q == end_p + Cardinality({x \in all_profile_ins : x[2] < end_p})
                       - Cardinality({x \in all_profile_del : x[2] <= end_p})
    IN [selected |-> reg.Start <= profile_del[Len(profile_del)] /\ reg.End >= profile_del[1],
        region_dels_p |-> Filter(profile_del, start_p..end_p),
        region_dels_q |-> Filter(query_del, start_q..end_q)]

\* a truncation test that knows the leading end only
TerminalSkip_LeadingOnly(self, region_dels_q) ==
    region_dels_q[1] = 0

\* the terminal-truncation test of line 566
TerminalSkip(self, region_dels_q) ==
    \/ region_dels_q[1] = 0
    \/ region_dels_q[1] = Len(self.query_seq) - Cardinality(self.nkdp)

\* the flag label and whitelist decision of lines 576-592; <<>> when no flag
DelFlagFor(self, pos, region, region_dels_p, region_dels_q, lookup) ==
    LET profile_pos == IF Len(pos) > 1
                       THEN Str2(region_dels_p[1], region_dels_p[Len(region_dels_p)])
                       ELSE Str1(region_dels_p[1])
        query_pos == Str2(region_dels_q[1], region_dels_q[1] + 1)
        p0 == region_dels_p[1]
        pn == region_dels_p[Len(region_dels_p)]
        flag(label) == <<label, profile_pos, query_pos, <<"d", "e", "l">>, Len(region_dels_p)>>
        checked(label) == IF check_lookup(lookup, label, p0, pn) = "FAIL"
                          THEN <<flag(label)>> ELSE <<>>
    IN CASE region = "CTS5" -> <<flag("5'CTS-del")>>
         [] region = "CTS3" -> <<flag("3'CTS-del")>>
         [] region = "NCR5" -> checked("5'NCR-del")
         [] region = "NCR3" -> checked("3'NCR-del")
         [] region = "CDS" -> IF Len(pos) % 3 = 0 THEN checked("CDS-3Xdel")
                                                  ELSE checked("CDS-del")
         [] OTHER -> <<>>

\* region_dels_q[0] / region_dels_p[0] on an empty list raises IndexError
deletion_raises(self, boundary) ==
    \E g \in 1..Len(self.del_groups), r \in 1..Len(boundary) :
        LET d == DelRegion(self, self.del_groups[g], boundary[r])
        IN /\ d.selected
           /\ \/ d.region_dels_q = <<>>
              \/ (~TerminalSkip(self, d.region_dels_q) /\ d.region_dels_p = <<>>)

deletion_flags(self, boundary, lookup) ==
    ConcatAll([g \in 1..Len(self.del_groups) |->
        ConcatAll([r \in 1..Len(boundary) |->
            LET pos == self.del_groups[g]
                d == DelRegion(self, pos, boundary[r])
            IN IF ~d.selected \/ d.region_dels_q = <<>> \/ d.region_dels_p = <<>> THEN <<>>
               ELSE IF TerminalSkip(self, d.region_dels_q) THEN <<>>
               ELSE DelFlagFor(self, pos, boundary[r].Region, d.region_dels_p,
                               d.region_dels_q, lookup)])])

(***************************************************************************)
(* InDelSubs.insertion_flags                                               *)
(***************************************************************************)
\* the values of a run with the profile position counted from the run's
\* first column on
InsRun_Shifted(self, pos) ==
    LET profile_ins == [k \in 1..Len(pos) |-> (pos[k] - CountLt(self.nkip, pos[k])) + 1]
        query_ins == [k \in 1..Len(pos) |-> (pos[k] - CountLt(self.nkdp, pos[k])) + 1]
    IN [ins_muts |-> Upper(Slice(self.query_seq, pos[1], pos[Len(pos)] + 1)),
        profile_ins |-> profile_ins,
        query_pos |-> IF Len(pos) > 1 THEN Str2(query_ins[1], query_ins[Len(query_ins)])
                                      ELSE Str1(query_ins[1]),
        profile_pos |-> Str2(profile_ins[1], profile_ins[1] + 1)]

\* the per-run values of lines 604-613
InsRun(self, pos) ==
    LET profile_ins == [k \in 1..Len(pos) |-> (pos[k] - CountLe(self.nkip, pos[k])) + 1]
        query_ins == [k \in 1..Len(pos) |-> (pos[k] - CountLt(self.nkdp, pos[k])) + 1]
    IN [ins_muts |-> Upper(Slice(self.query_seq, pos[1], pos[Len(pos)] + 1)),
        profile_ins |-> profile_ins,
        query_pos |-> IF Len(pos) > 1 THEN Str2(query_ins[1], query_ins[Len(query_ins)])
                                      ELSE Str1(query_ins[1]),
        profile_pos |-> Str2(profile_ins[1], profile_ins[1] + 1)]

\* the rows of line 623, in table order
InsRegions(boundary, profile_ins) ==
    ConcatAll([r \in 1..Len(boundary) |->
        IF boundary[r].Start <= profile_ins[Len(profile_ins)] /\ boundary[r].End >= profile_ins[1]
        THEN <<boundary[r].Region>> ELSE <<>>])

\* list(region['Region'])[0] on an empty selection raises IndexError
insertion_raises(self, boundary) ==
    \E g \in 1..Len(self.ins_groups) :
        LET profile_ins == InsRun(self, self.ins_groups[g]).profile_ins
        IN /\ profile_ins[1] # 0
           /\ profile_ins[1] # boundary[5].End
           /\ InsRegions(boundary, profile_ins) = <<>>

InsFlagFor(self, pos, boundary) ==
    LET profile_length == boundary[5].End
        r == InsRun(self, pos)
        flag(label, ppos) == <<label, ppos, r.query_pos, r.ins_muts, Len(pos)>>
        regions == InsRegions(boundary, r.profile_ins)
        region == IF regions = <<>> THEN "none" ELSE regions[1]
    IN IF r.profile_ins[1] = 0 THEN <<flag("5'NCR-ext", r.profile_pos)>>
       ELSE IF r.profile_ins[1] = profile_length
            THEN <<flag("3'NCR-ext", StrOpen(r.profile_ins[1]))>>
       ELSE CASE region = "CTS5" -> <<flag("5'CTS-ins", r.profile_pos)>>
              [] region = "CTS3" -> <<flag("3'CTS-ins", r.profile_pos)>>
              [] region = "NCR5" -> <<flag("5'NCR-ins", r.profile_pos)>>
              [] region = "NCR3" -> <<flag("3'NCR-ins", r.profile_pos)>>
              [] region = "CDS" -> IF Len(pos) % 3 = 0
                                   THEN <<flag("CDS-3Xins", r.profile_pos)>>
                                   ELSE <<flag("CDS-ins", r.profile_pos)>>
              [] OTHER -> <<>>

insertion_flags(self, boundary) ==
    ConcatAll([g \in 1..Len(self.ins_groups) |-> InsFlagFor(self, self.ins_groups[g], boundary)])

(***************************************************************************)
(* InDelSubs.substitution_flags                                            *)
(***************************************************************************)
RegionRow(boundary, name) == CHOOSE r \in {boundary[k] : k \in 1..Len(boundary)} : r.Region = name

\* sum([len(ins_groups[i]) for i in range(len(ins_groups)) if ins_groups[i][0] < bound])
InsBefore(self, bound) ==
    SumSeq([g \in 1..Len(self.ins_groups) |->
        IF self.ins_groups[g][1] < bound THEN Len(self.ins_groups[g]) ELSE 0])

\* lines 650-660: the CTS windows in alignment columns
CtsWindow(self, boundary) ==
    LET CTS5_start == RegionRow(boundary, "CTS5").Start - 1
        CTS3_start == RegionRow(boundary, "CTS3").Start - 1
        CTS5_end == RegionRow(boundary, "CTS5").End - 1
        CTS3_end == RegionRow(boundary, "CTS3").End - 1
    IN [CTS5_start_adj |-> CTS5_start,
        CTS3_start_adj |-> CTS3_start + InsBefore(self, CTS3_start),
        CTS5_end_adj |-> CTS5_end + InsBefore(self, CTS5_end),
        CTS3_end_adj |-> CTS3_end + InsBefore(self, CTS3_end)]

\* lines 663-670: the mismatching columns of a window [start_adj, end_adj];
\* `offset` is what the code adds to the window index i (0 for the 5' window,
\* CTS3_start_adj for the 3' window)
CtsMuts(self, start_adj, end_adj, offset) ==
    LET cts_query == Slice(self.query_seq, start_adj, end_adj + 1)
        cts_profile(k) == Slice(self.profile_seqs[k], start_adj, end_adj + 1)
    IN {i + offset : i \in
          {i \in 0..(Len(cts_query) - 1) :
              /\ \A k \in 1..Len(self.profile_seqs) : cts_query[i + 1] # cts_profile(k)[i + 1]
              /\ ~((i + offset) \in self.nkip \/ (i + offset) \in self.nkdp)}}

\* a flag for every run, whatever its bases
SubFlagFor_KeepN(self, pos, label) ==
    LET subs == Upper(Slice(self.query_seq, pos[1], pos[Len(pos)] + 1))
        profile_sub == [k \in 1..Len(pos) |-> (pos[k] - CountLt(self.nkip, pos[k])) + 1]
        query_sub == [k \in 1..Len(pos) |-> (pos[k] - CountLt(self.nkdp, pos[k])) + 1]
        profile_pos == IF Len(pos) > 1 THEN Str2(profile_sub[1], profile_sub[Len(profile_sub)])
                                       ELSE Str1(profile_sub[1])
        query_pos == IF Len(pos) > 1 THEN Str2(query_sub[1], query_sub[Len(query_sub)])
                                     ELSE Str1(query_sub[1])
    IN <<<<label, profile_pos, query_pos, subs, Len(pos)>>>>

\* lines 683-698 and 701-715: one flag per run that is not made of N only
SubFlagFor(self, pos, label) ==
    LET subs == Upper(Slice(self.query_seq, pos[1], pos[Len(pos)] + 1))
        profile_sub == [k \in 1..Len(pos) |-> (pos[k] - CountLt(self.nkip, pos[k])) + 1]
        query_sub == [k \in 1..Len(pos) |-> (pos[k] - CountLt(self.nkdp, pos[k])) + 1]
        profile_pos == IF Len(pos) > 1 THEN Str2(profile_sub[1], profile_sub[Len(profile_sub)])
                                       ELSE Str1(profile_sub[1])
        query_pos == IF Len(pos) > 1 THEN Str2(query_sub[1], query_sub[Len(query_sub)])
                                     ELSE Str1(query_sub[1])
        letters == {subs[k] : k \in 1..Len(subs)}
    IN IF Cardinality(letters) = 1 /\ letters = {"N"} THEN <<>>
       ELSE <<<<label, profile_pos, query_pos, subs, Len(pos)>>>>

substitution_flags(self, boundary) ==
    LET w == CtsWindow(self, boundary)
        cts5_positions == Groups(CtsMuts(self, w.CTS5_start_adj, w.CTS5_end_adj, 0))
        cts3_positions == Groups(CtsMuts(self, w.CTS3_start_adj, w.CTS3_end_adj, w.CTS3_start_adj))
    IN ConcatAll([g \in 1..Len(cts5_positions) |-> SubFlagFor(self, cts5_positions[g], "5'CTS-mut")])
       \o ConcatAll([g \in 1..Len(cts3_positions) |-> SubFlagFor(self, cts3_positions[g], "3'CTS-mut")])

(***************************************************************************)
(* Reference data and inputs.                                              *)
(***************************************************************************)
\* A profile or strain name is the list of its "_"-separated parts.
Unknown == <<"Unknown">>

\* str.startswith, on names
StartsWith(name, prefix) ==
    Len(prefix) <= Len(name) /\ SubSeq(name, 1, Len(prefix)) = prefix

\* The lines of the boundary file, strain_id|START=n|CTS5=n|ATG=n|STOP=n|CTS3=n|END=n.
\* Every region of a strain is non-empty, as in the curated boundary files.
BoundaryFile ==
    <<[strain |-> <<"A", "4", "H1">>, START |-> 1, CTS5 |-> 1, ATG |-> 3, STOP |-> 4, CTS3 |-> 6, END |-> 7]>>

\* Curation.parse_boundary_file: the first line that starts with the strain name
parse_boundary_file(strain, boundary_file) ==
    LET hits == {k \in 1..Len(boundary_file) : StartsWith(boundary_file[k].strain, strain)}
        boundaries == boundary_file[CHOOSE k \in hits : \A m \in hits : k <= m]
    IN <<[Region |-> "CTS5", Start |-> boundaries.START, End |-> boundaries.CTS5],
         [Region |-> "NCR5", Start |-> boundaries.CTS5 + 1, End |-> boundaries.ATG - 1],
         [Region |-> "CDS", Start |-> boundaries.ATG, End |-> boundaries.STOP],
         [Region |-> "NCR3", Start |-> boundaries.STOP + 1, End |-> boundaries.CTS3 - 1],
         [Region |-> "CTS3", Start |-> boundaries.CTS3, End |-> boundaries.END]>>

\* Lookup-table files: the lines profile <TAB> flag <TAB> range of a file
\* without a row of the profile and of a file with rows of it
LookupFiles ==
    { {[profile |-> <<"B", "4", "HA", "p1">>, flag |-> "CDS-del", range |-> Str2(1, 7)]},
      {[profile |-> <<"A", "4", "H1", "p1">>, flag |-> "CDS-3Xdel", range |-> Str2(2, 5)],
       [profile |-> <<"A", "4", "H1", "p1">>, flag |-> "CDS-del", range |-> Str1(3)],
       [profile |-> <<"A", "4", "H1", "p1">>, flag |-> "CDS-del", range |-> Str2(2, 2)],
       [profile |-> <<"A", "4", "H1", "p1">>, flag |-> "5'NCR-del", range |-> Str2(1, 3)],
       [profile |-> <<"A", "4", "H1", "p1">>, flag |-> "3'NCR-del", range |-> Str2(6, 7)],
       [profile |-> <<"A", "4", "H1", "p1">>, flag |-> "3'CTS-del", range |-> Str2(1, 7)],
       [profile |-> <<"B", "4", "HA", "p1">>, flag |-> "3'NCR-del", range |-> Str1(5)]} }

\* Curation.parse_lookup_table: the rows of the profile, or the XXX placeholder
parse_lookup_table(prof, lookup_table) ==
    LET profile_lookup ==
            {[Flag |-> line.flag,
              Start |-> line.range.nums[1],
              End |-> IF Len(line.range.nums) = 2 THEN line.range.nums[2]
                                                  ELSE line.range.nums[1]] :
                line \in {l \in lookup_table : StartsWith(l.profile, prof)}}
    IN IF profile_lookup # {} THEN profile_lookup
       ELSE {[Flag |-> "XXX", Start |-> 0 - 1, End |-> 0 - 1]}

\* The columns <<profile row 1, profile row 2, query row>> an alignment is
\* made of.  The aligner never writes a column of gaps only.
MatchColumns == {<<"A", "A", "A">>}
EventColumns ==
    {<<"A", "A", "C">>,     \* substitution
     <<"A", "A", "N">>,     \* substitution by N
     <<"A", "A", "n">>,     \* substitution by n
     <<"A", "A", "-">>,     \* deletion
     <<"A", "-", "-">>}     \* gap shared with a profile member
InsertColumns == {<<"-", "-", "C">>}

\* The alignment with profile columns 1..plen, where the columns of E are the
\* event columns kinds[p] and the others match, and lens[k] insertion
\* columns follow profile column k (k = 0: before the first) for k in S
AlignmentOf(plen, E, kinds, S, lens) ==
    LET ins == CHOOSE c \in InsertColumns : TRUE
        match == CHOOSE c \in MatchColumns : TRUE
        cols == ConcatAll([k \in 1..(plen + 1) |->
                    (IF (k - 1) \in S THEN [j \in 1..lens[k - 1] |-> ins] ELSE <<>>)
                    \o (IF k > plen THEN <<>>
                        ELSE IF k \in E THEN <<kinds[k]>> ELSE <<match>>)])
    IN [r \in 1..3 |-> [i \in 1..Len(cols) |-> cols[i][r]]]

\* sum of f over the finite set S
RECURSIVE SumOver(_, _)
SumOver(f, S) ==
    IF S = {} THEN 0
    ELSE LET k == CHOOSE x \in S : TRUE IN f[k] + SumOver(f, S \ {k})

\* The alignment files the aligner can write for a profile of plen columns
\* with at most maxEv columns that are not match columns: rows of equal
\* length, the profile rows first, the query last
IsAlignment(aln, plen, maxEv) ==
    \E E \in SUBSET (1..plen) :
        /\ Cardinality(E) <= maxEv
        /\ \E kinds \in [E -> EventColumns] :
             \E S \in SUBSET (0..plen) :
                /\ Cardinality(E) + Cardinality(S) <= maxEv
                /\ \E lens \in [S -> 1..maxEv] :
                     /\ Cardinality(E) + SumOver(lens, S) <= maxEv
                     /\ aln = AlignmentOf(plen, E, kinds, S, lens)

\* removes the gaps of an aligned row
RECURSIVE Degap(_)
Degap(row) ==
    IF row = <<>> THEN <<>>
    ELSE (IF Head(row) = "-" THEN <<>> ELSE <<Head(row)>>) \o Degap(Tail(row))

(***************************************************************************)
(* The main loop body (lines 809-860) and Curation.__init__, cut at the    *)
(* calls of the external classifier and aligner.                           *)
(***************************************************************************)
\* main, lines 809-813: one record of the input is written to query.fasta.
\* `aligner` is what the external aligner computes for this query.
Deflines == {<<"AB1">>, <<"gb", "CD2">>}

WriteQuery ==
    /\ pc = "query"
    /\ IsAlignment(aligner', BoundaryFile[1].END, MaxPipeEvents)
    /\ \E d \in Deflines :
          query' = [defline |-> d, sequence |-> Degap(aligner'[Len(aligner')])]
    /\ pc' = "blast"
    /\ UNCHANGED <<workers, blast_result, args, today, attrs, accession, profile, identity, strain_name, boundary_df,
                   lookup_df, ambig_flags, alignment, del_flags, ins_flags, sub_flags,
                   mut_flags, outputs, report, table6>>

\* Curation.get_acc_and_seq: the defline is split at the characters that are
\* neither alphanumeric nor "_" or "-"; the first part is the accession
\* when it holds a letter and a digit, else the second part is
HasLetterAndDigit(part) == part \in {"AB1", "CD2", "XY9"}
get_acc_and_seq(q) ==
    [accession |-> IF HasLetterAndDigit(q.defline[1]) THEN q.defline[1] ELSE q.defline[2],
     sequence |-> q.sequence]

\* Blast: the profile of the best hit, a known one here, and its identity in
\* percent
BlastProfile == <<"A", "4", "H1", "p1">>
BlastIdentities == {75, 95}

\* Blast.get_strain
get_strain(prof) ==
    IF prof = Unknown THEN Unknown ELSE SubSeq(prof, 1, Len(prof) - 1)

\* MolSeq.count_regular_nucs, count_indeterminate_nucs
CountIn(seq, letters) == Cardinality({i \in 1..Len(seq) : seq[i] \in letters})
count_regular_nucs(seq) == CountIn(seq, {"a", "A", "c", "C", "g", "G", "t", "T"})
count_indeterminate_nucs(seq) == CountIn(seq, {"n", "N"})

\* lines 65-73: x / len > 0.005 is 1000 * x > 5 * len; identity is in percent
AmbiguityScreen(seq, ident) ==
    (IF 1000 * count_indeterminate_nucs(seq) > 5 * Len(seq) THEN <<"Excess-N">> ELSE <<>>)
    \o (IF 1000 * (Len(seq) - (count_regular_nucs(seq) + count_indeterminate_nucs(seq)))
             > 5 * Len(seq)
        THEN <<"Excess-Ambig">> ELSE <<>>)
    \o (IF ident < 80 THEN <<"Excess-Dist">> ELSE <<>>)

LookupTable == CHOOSE f \in LookupFiles : \E l \in f : l.flag = "CDS-3Xdel"

\* main, line 815, and Curation.__init__, lines 36-73: a new object is
\* constructed; classify; stop when the profile is Unknown, else load the
\* references and screen the query
Classify ==
    /\ pc = "blast"
    /\ accession' = get_acc_and_seq(query).accession
    /\ del_flags' = <<>> /\ ins_flags' = <<>> /\ sub_flags' = <<>> /\ mut_flags' = <<>>
    /\ \/ /\ profile' = Unknown
          /\ identity' = Unknown
          /\ strain_name' = get_strain(Unknown)
          /\ attrs' = {"profile", "identity", "strain_name", "accession"}
          /\ boundary_df' = <<>> /\ lookup_df' = <<>> /\ ambig_flags' = <<>>
          /\ pc' = "report"
       \/ \E i \in BlastIdentities :
             /\ profile' = BlastProfile
             /\ identity' = i
             /\ strain_name' = get_strain(BlastProfile)
             /\ boundary_df' = parse_boundary_file(get_strain(BlastProfile), BoundaryFile)
             /\ lookup_df' = parse_lookup_table(BlastProfile, LookupTable)
             /\ ambig_flags' = AmbiguityScreen(get_acc_and_seq(query).sequence, i)
             /\ attrs' = {}
             /\ pc' = "muscle"
    /\ blast_result' = [profile |-> profile', identity |-> identity']
    /\ UNCHANGED <<workers, args, today, query, aligner, alignment, outputs, report, table6>>

\* lines 75-78: the aligner writes profiles/precomputed_alignment.fasta
Align ==
    /\ pc = "muscle"
    /\ alignment' = aligner
    /\ pc' = "muts"
    /\ UNCHANGED <<workers, blast_result, args, today, query, aligner, attrs, accession, profile, identity,
                   strain_name, boundary_df, lookup_df, ambig_flags, del_flags, ins_flags, sub_flags,
                   mut_flags, outputs, report, table6>>

\* lines 75-78, the aligner exits without writing: its exit status is not
\* looked at and the file is left as it was
AlignFails ==
    /\ pc = "muscle"
    /\ pc' = "muts"
    /\ UNCHANGED <<workers, blast_result, args, today, query, aligner, attrs, accession, profile, identity,
                   strain_name, boundary_df, lookup_df, ambig_flags, alignment, del_flags, ins_flags,
                   sub_flags, mut_flags, outputs, report, table6>>

\* a save that does not look at the insertion flags
SaveWanted_Always(ins) == TRUE

\* line 91: the alignment is saved when there is no insertion flag
SaveWanted(ins) == Len(ins) = 0

\* Curation.save_alignment: copy the alignment file to <output_dir>/<acc>_aligned.fasta
save_alignment(out, query_acc, aln) ==
    {o \in out : o.accession # query_acc} \cup {[accession |-> query_acc, content |-> aln]}

\* Curation.__init__, lines 80-102: read the alignment file, compute the
\* flags, save the alignment when there is no insertion flag.  A missing
\* file and an index error end the construction with an exception.
MutationFlags ==
    /\ pc = "muts"
    /\ IF alignment = <<>>
       THEN /\ pc' = "error"
            /\ UNCHANGED <<attrs, del_flags, ins_flags, sub_flags, mut_flags, outputs>>
       ELSE LET muts == InDelSubsInit(alignment)
            IN IF deletion_raises(muts, boundary_df) \/ insertion_raises(muts, boundary_df)
               THEN /\ pc' = "error"
                    /\ UNCHANGED <<attrs, del_flags, ins_flags, sub_flags, mut_flags, outputs>>
               ELSE LET d == deletion_flags(muts, boundary_df, lookup_df)
                        i == insertion_flags(muts, boundary_df)
                        s == substitution_flags(muts, boundary_df)
                    IN /\ del_flags' = d
                       /\ ins_flags' = i
                       /\ sub_flags' = s
                       /\ mut_flags' = d \o i \o s
                       /\ outputs' = IF SaveWanted(i)
                                     THEN save_alignment(outputs, accession, alignment)
                                     ELSE outputs
                       /\ attrs' = {"mut_flags", "del_flags", "ins_flags", "sub_flags",
                                    "ambig_flags", "profile", "identity", "strain_name",
                                    "accession"}
                       /\ pc' = "report"
    /\ UNCHANGED <<workers, blast_result, args, today, query, aligner, accession, profile, identity,
                   strain_name, boundary_df, lookup_df, ambig_flags, alignment, report, table6>>

(***************************************************************************)
(* The accessors of Curation.  An accessor returns a string, a list of     *)
(* strings or a table of flags: [tag, rows].  Reading an attribute that    *)
(* was never assigned raises AttributeError.                               *)
(***************************************************************************)
\* the Curation object: the attributes assigned so far and their values
Self ==
    [attrs |-> attrs, profile |-> profile, identity |-> identity,
     strain_name |-> strain_name, accession |-> accession, ambig_flags |-> ambig_flags,
     mut_flags |-> mut_flags, del_flags |-> del_flags, ins_flags |-> ins_flags,
     sub_flags |-> sub_flags]

Text(t) == [tag |-> t, rows |-> <<>>]
List(l) == [tag |-> "list", rows |-> l]
DataFrame(rows) == [tag |-> "table", rows |-> rows]
Raised == Text("AttributeError")

\* the pattern shared by mutation_flags, deletion_flags, insertion_flags and
\* substitution_flags
FlagTable(self, attr, flags) ==
    IF "profile" \notin self.attrs THEN Raised
    ELSE IF self.profile = Unknown THEN Text("Unknown")
    ELSE IF attr \notin self.attrs THEN Raised
    ELSE IF flags = <<>> THEN Text("Pass")
    ELSE DataFrame(flags)

\* Curation.mutation_flags
mutation_flags(self) == FlagTable(self, "mut_flags", self.mut_flags)

\* Curation.deletion_flags (the accessor)
get_deletion_flags(self) == FlagTable(self, "del_flags", self.del_flags)

\* Curation.insertion_flags (the accessor)
get_insertion_flags(self) == FlagTable(self, "ins_flags", self.ins_flags)

\* Curation.substitution_flags (the accessor)
get_substitution_flags(self) == FlagTable(self, "sub_flags", self.sub_flags)

\* Curation.ambiguity_flags
ambiguity_flags(self) ==
    IF "profile" \notin self.attrs THEN Raised
    ELSE IF self.profile = Unknown THEN Text("Excess-Dist")
    ELSE IF "ambig_flags" \notin self.attrs THEN Raised
    ELSE IF self.ambig_flags = <<>> THEN Text("Pass")
    ELSE List(self.ambig_flags)

\* "CDS" in flag[0]: by the region part of the flag's name
NameParts(kind) ==
    CASE kind \in {"CDS-del", "CDS-3Xdel", "CDS-ins", "CDS-3Xins"} -> {"CDS"}
      [] kind \in {"5'NCR-del", "3'NCR-del", "5'NCR-ins", "3'NCR-ins", "5'NCR-ext", "3'NCR-ext"}
            -> {"NCR"}
      [] kind \in {"5'CTS-del", "3'CTS-del", "5'CTS-ins", "3'CTS-ins", "5'CTS-mut", "3'CTS-mut"}
            -> {"CTS"}
      [] OTHER -> {}
Contains(kind, part) == part \in NameParts(kind)

\* a summary that looks at the mutation flags before the ambiguity flags
summary_flag_MutationsFirst(self) ==
    IF "profile" \notin self.attrs THEN Raised
    ELSE IF self.profile = Unknown THEN Text("Ambig-Seq")
    ELSE IF "mut_flags" \notin self.attrs \/ "ambig_flags" \notin self.attrs THEN Raised
    ELSE IF \E k \in 1..Len(self.mut_flags) : Contains(self.mut_flags[k][1], "CDS")
         THEN Text("Flag-CDS")
    ELSE IF \E k \in 1..Len(self.mut_flags) :
               Contains(self.mut_flags[k][1], "NCR") \/ Contains(self.mut_flags[k][1], "CTS")
         THEN Text("Flag-NCR")
    ELSE IF self.ambig_flags # <<>> THEN Text("Ambig-Seq")
    ELSE Text("Pass")

\* Curation.summary_flag
summary_flag(self) ==
    IF "profile" \notin self.attrs THEN Raised
    ELSE IF self.profile = Unknown THEN Text("Ambig-Seq")
    ELSE IF "ambig_flags" \notin self.attrs THEN Raised
    ELSE IF self.ambig_flags # <<>> THEN Text("Ambig-Seq")
    ELSE IF "mut_flags" \notin self.attrs THEN Raised
    ELSE IF \E k \in 1..Len(self.mut_flags) : Contains(self.mut_flags[k][1], "CDS")
         THEN Text("Flag-CDS")
    ELSE IF \E k \in 1..Len(self.mut_flags) :
               Contains(self.mut_flags[k][1], "NCR") \/ Contains(self.mut_flags[k][1], "CTS")
         THEN Text("Flag-NCR")
    ELSE Text("Pass")

\* main, lines 816-857: what is printed for the --flag argument of the run
Modes == {"", "mut", "ambig", "ins", "del", "sub"}
NotPrinted == Text("-")
Printed(self, mode) ==
    [Accession |-> self.accession,
     Subtype |-> self.strain_name,
     Identity |-> self.identity,
     Summary |-> IF mode = "mut" THEN NotPrinted ELSE summary_flag(self),
     Ambiguity |-> IF mode \in {"", "ambig"} THEN ambiguity_flags(self) ELSE NotPrinted,
     Mutation |-> IF mode \in {"", "mut"} THEN mutation_flags(self) ELSE NotPrinted,
     Insertion |-> IF mode = "ins" THEN get_insertion_flags(self) ELSE NotPrinted,
     Deletion |-> IF mode = "del" THEN get_deletion_flags(self) ELSE NotPrinted,
     Substitution |-> IF mode = "sub" THEN get_substitution_flags(self) ELSE NotPrinted]
PrintRaises(self, mode) ==
    LET p == Printed(self, mode)
    IN "AttributeError" \in {p.Summary.tag, p.Ambiguity.tag, p.Mutation.tag, p.Insertion.tag,
                             p.Deletion.tag, p.Substitution.tag}

Report ==
    /\ pc = "report"
    /\ IF PrintRaises(Self, args)
       THEN pc' = "error" /\ UNCHANGED report
       ELSE pc' = "table6" /\ report' = Printed(Self, args)
    /\ UNCHANGED <<workers, blast_result, args, today, query, aligner, attrs, accession, profile, identity,
                   strain_name, boundary_df, lookup_df, ambig_flags, alignment, del_flags,
                   ins_flags, sub_flags, mut_flags, outputs, table6>>

(***************************************************************************)
(* The Table 6 ledger, Curation.update_table6.                             *)
(*                                                                         *)
(* The ledger file is a list of rows.  A text of the POS_PROFILE column is *)
(* [s, frac]: a position string s, followed by ".0" when frac.  A date is  *)
(* [month, day]; the time of day of datetime.today() is after midnight.    *)
(* MUTATION_SUM is the list of its variant:count items, ACCESSION_LIST the *)
(* list of its accessions, PAST_MONTH_INCREASE <<n>> or the empty <<>>.    *)
(***************************************************************************)
\* Python's order of the accessions and of the profile names of the model
AccessionOrder == <<"AB1", "CD2", "XY9">>
ProfileOrder == <<BlastProfile, <<"B", "4", "HA", "p1">>>>
Rank(order, x) == CHOOSE k \in 1..Len(order) : order[k] = x
Range(s) == {s[k] : k \in 1..Len(s)}

EmptyText(c) == c.s = StrEmpty
NumericText(c) == Len(c.s.nums) = 1 /\ ~c.s.dots

\* pd.read_csv, line 162: the rows get the labels 0, 1, ...; a POS_PROFILE
\* column whose texts are all numbers or empty is read as numbers (as floats
\* when a text is empty or has a fraction), any other as strings; an empty
\* text is NaN.  Line 171 floors LAST_UPDATED to the day.
read_csv(file) ==
    LET numeric == \A k \in 1..Len(file) :
                      EmptyText(file[k].POS_PROFILE) \/ NumericText(file[k].POS_PROFILE)
        float == \E k \in 1..Len(file) :
                    EmptyText(file[k].POS_PROFILE) \/ file[k].POS_PROFILE.frac
        cell(c) == IF EmptyText(c) THEN [t |-> "nan", s |-> StrEmpty, frac |-> FALSE]
                   ELSE IF numeric
                        THEN [t |-> IF float THEN "float" ELSE "int", s |-> c.s, frac |-> FALSE]
                        ELSE [t |-> "str", s |-> c.s, frac |-> c.frac]
    IN [k \in 1..Len(file) |->
          [label |-> k - 1,
           PROFILE_NAME |-> file[k].PROFILE_NAME,
           STATUS_THIS_MONTH |-> file[k].STATUS_THIS_MONTH,
           LAST_UPDATED |-> file[k].LAST_UPDATED,
           FLU_SUBTYPE |-> file[k].FLU_SUBTYPE,
           AUTO_ALIGNMENT_ISSUE |-> file[k].AUTO_ALIGNMENT_ISSUE,
           POS_PROFILE |-> cell(file[k].POS_PROFILE),
           MUTATION_SUM |-> file[k].MUTATION_SUM,
           ACCESSION_TOTAL |-> file[k].ACCESSION_TOTAL,
           CURRENT_MONTH_INCREASE |-> file[k].CURRENT_MONTH_INCREASE,
           PAST_MONTH_INCREASE |-> file[k].PAST_MONTH_INCREASE,
           ACCESSION_LIST |-> file[k].ACCESSION_LIST]]

\* lines 170-172: LAST_UPDATED < current_month, the first day of the month
\* of today at today's time of day
BeforeCurrentMonth(date, now) ==
    date.month < now.month \/ (date.month = now.month /\ date.day = 1)

\* lines 172-176
Rollover(rows, now) ==
    [k \in 1..Len(rows) |->
        IF BeforeCurrentMonth(rows[k].LAST_UPDATED, now)
           /\ rows[k].STATUS_THIS_MONTH # "Unchanged"
        THEN [rows[k] EXCEPT !.STATUS_THIS_MONTH = "Unchanged",
                             !.PAST_MONTH_INCREASE = <<rows[k].CURRENT_MONTH_INCREASE>>,
                             !.CURRENT_MONTH_INCREASE = 0]
        ELSE rows[k]]

IsExt(flag) == flag[1] \in {"5'NCR-ext", "3'NCR-ext"}
IsCtsMut(flag) == flag[1] \in {"5'CTS-mut", "3'CTS-mut"}

\* lines 181-182 and 208-209: the rows a flag matches; a number of the
\* POS_PROFILE column never equals the string flag[1]
MatchRows(rows, self, flag) ==
    {k \in 1..Len(rows) :
        /\ rows[k].PROFILE_NAME = self.profile
        /\ rows[k].FLU_SUBTYPE = self.strain_name
        /\ rows[k].AUTO_ALIGNMENT_ISSUE = flag[1]
        /\ \/ IsExt(flag)
           \/ /\ rows[k].POS_PROFILE.t = "str"
              /\ ~rows[k].POS_PROFILE.frac
              /\ rows[k].POS_PROFILE.s = flag[2]}

\* lines 202-205 and 238-244: the row appended for an unmatched flag; concat
\* keeps its label 0 and leaves its PAST_MONTH_INCREASE empty
NewRow(self, flag, now) ==
    [label |-> 0,
     PROFILE_NAME |-> self.profile,
     STATUS_THIS_MONTH |-> "New",
     LAST_UPDATED |-> now,
     FLU_SUBTYPE |-> self.strain_name,
     AUTO_ALIGNMENT_ISSUE |-> flag[1],
     POS_PROFILE |-> [t |-> "str", s |-> IF IsExt(flag) THEN StrEmpty ELSE flag[2],
                      frac |-> FALSE],
     MUTATION_SUM |-> IF IsCtsMut(flag) THEN <<[key |-> flag[4], val |-> 1]>> ELSE <<>>,
     ACCESSION_TOTAL |-> 1,
     CURRENT_MONTH_INCREASE |-> 1,
     PAST_MONTH_INCREASE |-> <<>>,
     ACCESSION_LIST |-> <<self.accession>>]

\* lines 187-192 and 213-218: the accession joins the sorted accession list
AddAccession(list, acc) ==
    LET S == Range(list) \cup {acc}
        n == Cardinality(S)
    IN [k \in 1..n |->
          CHOOSE a \in S :
             Cardinality({b \in S : Rank(AccessionOrder, b) < Rank(AccessionOrder, a)}) = k - 1]

\* lines 228-235
AddVariant(mut_sum, variant) ==
    IF \E k \in 1..Len(mut_sum) : mut_sum[k].key = variant
    THEN [k \in 1..Len(mut_sum) |->
            IF mut_sum[k].key = variant
            THEN [mut_sum[k] EXCEPT !.val = @ + 1] ELSE mut_sum[k]]
    ELSE Append(mut_sum, [key |-> variant, val |-> 1])

\* lines 194-199, 220-235: the update of a matched row
UpdatedRow(row, self, flag, now) ==
    [row EXCEPT
        !.STATUS_THIS_MONTH = IF @ = "Unchanged" THEN "Updated" ELSE @,
        !.LAST_UPDATED = IF row.STATUS_THIS_MONTH = "Unchanged" THEN now ELSE @,
        !.ACCESSION_TOTAL = @ + 1,
        !.CURRENT_MONTH_INCREASE = @ + 1,
        !.ACCESSION_LIST = AddAccession(@, self.accession),
        !.MUTATION_SUM = IF IsCtsMut(flag) THEN AddVariant(@, flag[4]) ELSE @]

\* lines 185-187, 211-213 when several rows carry the label of the matched
\* row: the cells read are a Series, and the accession is "in" the list only
\* as an item that is neither first nor last in the text of one of the rows
InSeriesText(rows, same, acc) ==
    \E k \in same : \E j \in 2..(Len(rows[k].ACCESSION_LIST) - 1) :
       rows[k].ACCESSION_LIST[j] = acc

\* the body of the loop of line 179 for one flag: the rows, and whether an
\* exception is raised (int() of a Series, or dict() of a MUTATION_SUM
\* without items)
ApplyFlag(rows, self, flag, now) ==
    LET m == MatchRows(rows, self, flag)
    IN IF m = {}
       THEN [rows |-> Append(rows, NewRow(self, flag, now)), raised |-> FALSE]
       ELSE LET first == CHOOSE k \in m : \A j \in m : k <= j
                same == {k \in 1..Len(rows) : rows[k].label = rows[first].label}
            IN IF Cardinality(same) > 1
               THEN [rows |-> rows, raised |-> ~InSeriesText(rows, same, self.accession)]
               ELSE IF self.accession \in Range(rows[first].ACCESSION_LIST)
               THEN [rows |-> rows, raised |-> FALSE]
               ELSE IF IsCtsMut(flag) /\ rows[first].MUTATION_SUM = <<>>
               THEN [rows |-> rows, raised |-> TRUE]
               ELSE [rows |-> [rows EXCEPT ![first] = UpdatedRow(@, self, flag, now)],
                     raised |-> FALSE]

\* the loop of line 179
RECURSIVE ApplyFlags(_, _, _, _)
ApplyFlags(rows, self, flags, now) ==
    IF flags = <<>> THEN [rows |-> rows, raised |-> FALSE]
    ELSE LET one == ApplyFlag(rows, self, Head(flags), now)
         IN IF one.raised THEN one ELSE ApplyFlags(one.rows, self, Tail(flags), now)

\* line 246: stable sort by PROFILE_NAME ascending, ACCESSION_TOTAL descending
RowBefore(a, b) ==
    \/ Rank(ProfileOrder, a.PROFILE_NAME) < Rank(ProfileOrder, b.PROFILE_NAME)
    \/ /\ a.PROFILE_NAME = b.PROFILE_NAME
       /\ a.ACCESSION_TOTAL > b.ACCESSION_TOTAL

RECURSIVE sort_values(_)
sort_values(rows) ==
    IF rows = <<>> THEN <<>>
    ELSE LET init == sort_values(SubSeq(rows, 1, Len(rows) - 1))
             x == rows[Len(rows)]
             n == Cardinality({k \in 1..Len(init) : ~RowBefore(x, init[k])})
         IN SubSeq(init, 1, n) \o <<x>> \o SubSeq(init, n + 1, Len(init))

\* line 247: the labels are dropped; a number is written as it is held, a
\* float with ".0", NaN as the empty text
to_csv(rows) ==
    [k \in 1..Len(rows) |->
          [PROFILE_NAME |-> rows[k].PROFILE_NAME,
           STATUS_THIS_MONTH |-> rows[k].STATUS_THIS_MONTH,
           LAST_UPDATED |-> rows[k].LAST_UPDATED,
           FLU_SUBTYPE |-> rows[k].FLU_SUBTYPE,
           AUTO_ALIGNMENT_ISSUE |-> rows[k].AUTO_ALIGNMENT_ISSUE,
           POS_PROFILE |-> [s |-> rows[k].POS_PROFILE.s,
                            frac |-> IF rows[k].POS_PROFILE.t = "float" THEN TRUE
                                     ELSE rows[k].POS_PROFILE.frac],
           MUTATION_SUM |-> rows[k].MUTATION_SUM,
           ACCESSION_TOTAL |-> rows[k].ACCESSION_TOTAL,
           CURRENT_MONTH_INCREASE |-> rows[k].CURRENT_MONTH_INCREASE,
           PAST_MONTH_INCREASE |-> rows[k].PAST_MONTH_INCREASE,
           ACCESSION_LIST |-> rows[k].ACCESSION_LIST]]

\* an updater without the return of line 153-154
update_table6_NoUnknownReturn(self, file, now) ==
    IF "mut_flags" \notin self.attrs THEN [file |-> file, raised |-> TRUE]
    ELSE IF self.mut_flags = <<>> THEN [file |-> file, raised |-> FALSE]
    ELSE LET res == ApplyFlags(Rollover(read_csv(file), now), self, self.mut_flags, now)
         IN IF res.raised THEN [file |-> file, raised |-> TRUE]
            ELSE [file |-> to_csv(sort_values(res.rows)), raised |-> FALSE]

\* Curation.update_table6: the ledger file it leaves, and whether it raises
update_table6(self, file, now) ==
    IF "profile" \notin self.attrs THEN [file |-> file, raised |-> TRUE]
    ELSE IF self.profile = Unknown THEN [file |-> file, raised |-> FALSE]
    ELSE IF "mut_flags" \notin self.attrs THEN [file |-> file, raised |-> TRUE]
    ELSE IF self.mut_flags = <<>> THEN [file |-> file, raised |-> FALSE]
    ELSE LET res == ApplyFlags(Rollover(read_csv(file), now), self, self.mut_flags, now)
         IN IF res.raised THEN [file |-> file, raised |-> TRUE]
            ELSE [file |-> to_csv(sort_values(res.rows)), raised |-> FALSE]

\* main, lines 858-861: the ledger is updated and the pass of the loop body
\* for this record ends
UpdateTable6 ==
    /\ pc = "table6"
    /\ LET res == update_table6(Self, table6, today)
       IN /\ table6' = res.file
          /\ pc' = IF res.raised THEN "error" ELSE "done"
    /\ UNCHANGED <<workers, blast_result, args, today, query, aligner, attrs, accession, profile, identity,
                   strain_name, boundary_df, lookup_df, ambig_flags, alignment, del_flags,
                   ins_flags, sub_flags, mut_flags, outputs, report>>

(***************************************************************************)
(* The program: one pass of the main loop body, for one record of the      *)
(* input file.  What outlives a pass - the alignment file of the profile   *)
(* directory, the output directory, the ledger - is as an earlier pass or  *)
(* run may have left it.                                                   *)
(***************************************************************************)
\* the day of the run
Dates == {[month |-> 2, day |-> 2], [month |-> 3, day |-> 1]}

\* an alignment file left in the profile directory by an earlier run
StaleAlignment ==
    << <<"A", "A", "A", "-", "A", "A", "A", "A">>,
       <<"A", "A", "A", "-", "A", "A", "A", "A">>,
       <<"A", "A", "A", "C", "A", "A", "A", "A">> >>

LedgerRow(issue, pos, sum, total, list, status, date) ==
    [PROFILE_NAME |-> BlastProfile,
     STATUS_THIS_MONTH |-> status,
     LAST_UPDATED |-> date,
     FLU_SUBTYPE |-> get_strain(BlastProfile),
     AUTO_ALIGNMENT_ISSUE |-> issue,
     POS_PROFILE |-> [s |-> pos, frac |-> FALSE],
     MUTATION_SUM |-> sum,
     ACCESSION_TOTAL |-> total,
     CURRENT_MONTH_INCREASE |-> 1,
     PAST_MONTH_INCREASE |-> <<0>>,
     ACCESSION_LIST |-> list]

\* ledger files found by the run: without rows, with range and single
\* positions, with single positions only
InitialLedgers ==
    { <<>>,
      <<LedgerRow("CDS-del", Str2(3, 4), <<>>, 2, <<"AB1", "XY9">>, "Updated",
                  [month |-> 1, day |-> 2]),
        LedgerRow("5'CTS-mut", Str1(1), <<[key |-> <<"C">>, val |-> 1]>>, 1, <<"XY9">>, "New",
                  [month |-> 2, day |-> 2])>>,
      <<LedgerRow("CDS-del", Str1(3), <<>>, 1, <<"XY9">>, "Unchanged",
                  [month |-> 2, day |-> 1])>> }

\* a file that does not exist
NoFile == <<>>

NoObject ==
    /\ attrs = {} /\ accession = "" /\ profile = <<>> /\ identity = 0 /\ strain_name = <<>>
    /\ boundary_df = <<>> /\ lookup_df = <<>> /\ ambig_flags = <<>>
    /\ del_flags = <<>> /\ ins_flags = <<>> /\ sub_flags = <<>> /\ mut_flags = <<>>
    /\ report = <<>>

Init ==
    /\ pc = "query"
    /\ workers = <<>>
    /\ blast_result = NoFile
    /\ args \in Modes
    /\ today \in Dates
    /\ query = [defline |-> <<>>, sequence |-> <<>>]
    /\ aligner = <<>>
    /\ alignment \in {<<>>, StaleAlignment}
    /\ outputs = {}
    /\ table6 \in InitialLedgers
    /\ NoObject

Next == WriteQuery \/ Classify \/ Align \/ AlignFails \/ MutationFlags \/ Report \/ UpdateTable6

Spec == Init /\ [][Next]_vars

(***************************************************************************)
(* The flag engine alone: Curation.__init__ from line 80 on, for every     *)
(* alignment file and both lookup tables, and the accessors.               *)
(***************************************************************************)
EngineInit ==
    /\ pc = "muts"
    /\ workers = <<>>
    /\ args = ""
    /\ today \in {d \in Dates : d.day = 2}
    /\ profile = BlastProfile
    /\ strain_name = get_strain(BlastProfile)
    /\ identity \in {i \in BlastIdentities : i >= 80}
    /\ blast_result = [profile |-> profile, identity |-> identity]
    /\ boundary_df = parse_boundary_file(strain_name, BoundaryFile)
    /\ \E f \in LookupFiles : lookup_df = parse_lookup_table(profile, f)
    /\ IsAlignment(alignment, boundary_df[5].End, MaxEvents)
    /\ aligner = alignment
    /\ query = [defline |-> <<"AB1">>, sequence |-> Degap(alignment[Len(alignment)])]
    /\ accession = get_acc_and_seq(query).accession
    /\ ambig_flags = AmbiguityScreen(query.sequence, identity)
    /\ attrs = {}
    /\ del_flags = <<>> /\ ins_flags = <<>> /\ sub_flags = <<>> /\ mut_flags = <<>>
    /\ outputs = {}
    /\ report = <<>>
    /\ table6 = <<>>

EngineNext == MutationFlags \/ Report

SpecEngine == EngineInit /\ [][EngineNext]_vars

(***************************************************************************)
(* Several processes of the program run side by side in one directory, one *)
(* record each.  Every process writes and reads the same query.fasta       *)
(* (line 813), blast/blast_result.xml (lines 741-748) and                  *)
(* profiles/precomputed_alignment.fasta (lines 76-81).  A process is       *)
(* followed up to the end of the construction of its Curation object.      *)
(***************************************************************************)
\* processes run side by side
NumWorkers == 2

\* the records handed to the processes, with what the classifier and the
\* aligner compute for each
WorkerRecords ==
    << [defline |-> <<"AB1">>,
        blast |-> [profile |-> BlastProfile, identity |-> 95],
        muscle |-> << <<"A", "A", "A", "A", "A", "A", "A">>,
                      <<"A", "A", "A", "A", "A", "A", "A">>,
                      <<"A", "A", "A", "A", "A", "A", "A">> >>],
       [defline |-> <<"gb", "CD2">>,
        blast |-> [profile |-> BlastProfile, identity |-> 95],
        muscle |-> << <<"A", "A", "A", "A", "A", "A", "A">>,
                      <<"A", "A", "A", "A", "A", "A", "A">>,
                      <<"A", "A", "A", "-", "A", "A", "C">> >>],
       [defline |-> <<"XY9">>,
        blast |-> [profile |-> Unknown, identity |-> Unknown],
        muscle |-> << <<"A", "-", "A", "A", "A", "A", "A", "A">>,
                      <<"A", "-", "A", "A", "A", "A", "A", "A">>,
                      <<"A", "C", "A", "A", "A", "A", "A", "A">> >>] >>

\* the record whose text is in query.fasta
RecordOf(q) == CHOOSE k \in 1..Len(WorkerRecords) : WorkerRecords[k].defline = q.defline

\* the flags of an alignment file: lines 81-88
FlagsOf(aln, boundary, lookup) ==
    LET muts == InDelSubsInit(aln)
    IN [del_flags |-> deletion_flags(muts, boundary, lookup),
        ins_flags |-> insertion_flags(muts, boundary),
        sub_flags |-> substitution_flags(muts, boundary)]

process_vars ==
    <<pc, args, today, aligner, accession, attrs, profile, identity, strain_name, boundary_df,
      lookup_df, ambig_flags, del_flags, ins_flags, sub_flags, mut_flags, report, table6>>

\* main, lines 809-813
W_WriteQuery(w) ==
    /\ workers[w].pc = "query"
    /\ LET r == WorkerRecords[workers[w].rec]
       IN query' = [defline |-> r.defline, sequence |-> Degap(r.muscle[Len(r.muscle)])]
    /\ workers' = [workers EXCEPT ![w].pc = "acc"]
    /\ UNCHANGED <<process_vars, blast_result, alignment, outputs>>

\* Curation.__init__, line 37
W_GetAccAndSeq(w) ==
    /\ workers[w].pc = "acc"
    /\ workers' = [workers EXCEPT ![w].pc = "blastn",
                                  ![w].accession = get_acc_and_seq(query).accession,
                                  ![w].sequence = get_acc_and_seq(query).sequence]
    /\ UNCHANGED <<process_vars, blast_result, query, alignment, outputs>>

\* Blast.__init__, lines 745-746: blastn reads query.fasta and writes the
\* result file
W_Blastn(w) ==
    /\ workers[w].pc = "blastn"
    /\ blast_result' = WorkerRecords[RecordOf(query)].blast
    /\ workers' = [workers EXCEPT ![w].pc = "blast"]
    /\ UNCHANGED <<process_vars, query, alignment, outputs>>

\* Blast.__init__, lines 748-759, and Curation.__init__, lines 49-73
W_Classify(w) ==
    /\ workers[w].pc = "blast"
    /\ IF blast_result.profile = Unknown
       THEN workers' = [workers EXCEPT ![w].pc = "done",
                                       ![w].profile = Unknown,
                                       ![w].identity = Unknown]
       ELSE workers' = [workers EXCEPT
                           ![w].pc = "muscle",
                           ![w].profile = blast_result.profile,
                           ![w].identity = blast_result.identity,
                           ![w].ambig_flags =
                               AmbiguityScreen(workers[w].sequence, blast_result.identity)]
    /\ UNCHANGED <<process_vars, blast_result, query, alignment, outputs>>

\* Curation.__init__, lines 76-78: the aligner reads query.fasta and writes
\* the alignment file
W_Align(w) ==
    /\ workers[w].pc = "muscle"
    /\ alignment' = WorkerRecords[RecordOf(query)].muscle
    /\ workers' = [workers EXCEPT ![w].pc = "muts"]
    /\ UNCHANGED <<process_vars, blast_result, query, outputs>>

\* Curation.__init__, lines 81-102
W_MutationFlags(w) ==
    /\ workers[w].pc = "muts"
    /\ LET f == FlagsOf(alignment,
                        parse_boundary_file(get_strain(workers[w].profile), BoundaryFile),
                        parse_lookup_table(workers[w].profile, LookupTable))
       IN /\ workers' = [workers EXCEPT ![w].pc = "done",
                                        ![w].mut_flags = f.del_flags \o f.ins_flags \o f.sub_flags]
          /\ outputs' = IF SaveWanted(f.ins_flags)
                        THEN save_alignment(outputs, workers[w].accession, alignment)
                        ELSE outputs
    /\ UNCHANGED <<process_vars, blast_result, query, alignment>>

WorkersInit ==
    /\ workers \in [1..NumWorkers ->
                      {[pc |-> "query", rec |-> k, accession |-> "", sequence |-> <<>>,
                        profile |-> <<>>, identity |-> 0, ambig_flags |-> <<>>,
                        mut_flags |-> <<>>] : k \in 1..Len(WorkerRecords)}]
    /\ pc = "workers"
    /\ args = ""
    /\ today \in {d \in Dates : d.day = 2}
    /\ query = [defline |-> <<>>, sequence |-> <<>>]
    /\ blast_result = NoFile
    /\ aligner = <<>>
    /\ alignment = NoFile
    /\ outputs = {}
    /\ table6 = <<>>
    /\ NoObject

WorkersNext ==
    \E w \in 1..NumWorkers :
        \/ W_WriteQuery(w)
        \/ W_GetAccAndSeq(w)
        \/ W_Blastn(w)
        \/ W_Classify(w)
        \/ W_Align(w)
        \/ W_MutationFlags(w)

SpecWorkers == WorkersInit /\ [][WorkersNext]_vars

(***************************************************************************)
(* The ledger over a sequence of calls of update_table6, from a ledger     *)
(* without rows.  Each call is made on a constructed Curation object: its  *)
(* accession, and the flags of the alignment of its query.  Between calls  *)
(* the date may advance.                                                   *)
(***************************************************************************)
\* rows of the ledger beyond which no further object is drawn
MaxRows == 3

\* the days of the runs, in order
LedgerDates == << [month |-> 1, day |-> 2], [month |-> 2, day |-> 2], [month |-> 3, day |-> 2] >>

\* the accessions of the queries curated
LedgerAccessions == {"AB1", "CD2"}

ProfileRow == <<"A", "A", "A", "A", "A", "A", "A">>

\* alignments of the queries curated: no flag; a deletion over a range of
\* the CDS; a deletion in the 3'NCR and a 3'CTS mutation; a 5' extension
LedgerAlignments ==
    { <<ProfileRow, ProfileRow, <<"A", "A", "A", "A", "A", "A", "A">>>>,
      <<ProfileRow, ProfileRow, <<"A", "A", "-", "-", "A", "A", "A">>>>,
      <<ProfileRow, ProfileRow, <<"A", "A", "A", "A", "-", "A", "C">>>>,
      <<<<"-">> \o ProfileRow, <<"-">> \o ProfileRow, <<"C">> \o ProfileRow>> }

\* a Curation object whose construction completed (lines 94-102), for a
\* query of some accession, on a day not before the last one
DrawObject ==
    /\ pc \in {"done", "error"}
    /\ Len(table6) < MaxRows
    /\ \E d \in Range(LedgerDates) :
          /\ Rank(LedgerDates, d) >= Rank(LedgerDates, today)
          /\ today' = d
    /\ \E acc \in LedgerAccessions : accession' = acc
    /\ \/ /\ profile' = Unknown
          /\ identity' = Unknown
          /\ strain_name' = get_strain(Unknown)
          /\ attrs' = {"profile", "identity", "strain_name", "accession"}
          /\ boundary_df' = <<>> /\ lookup_df' = <<>>
          /\ del_flags' = <<>> /\ ins_flags' = <<>> /\ sub_flags' = <<>> /\ mut_flags' = <<>>
       \/ \E a \in LedgerAlignments :
             /\ profile' = BlastProfile
             /\ identity' = 95
             /\ strain_name' = get_strain(BlastProfile)
             /\ boundary_df' = parse_boundary_file(get_strain(BlastProfile), BoundaryFile)
             /\ lookup_df' = parse_lookup_table(BlastProfile, LookupTable)
             /\ LET f == FlagsOf(a, boundary_df', lookup_df')
                IN /\ del_flags' = f.del_flags
                   /\ ins_flags' = f.ins_flags
                   /\ sub_flags' = f.sub_flags
                   /\ mut_flags' = f.del_flags \o f.ins_flags \o f.sub_flags
             /\ attrs' = {"mut_flags", "del_flags", "ins_flags", "sub_flags", "ambig_flags",
                          "profile", "identity", "strain_name", "accession"}
    /\ pc' = "table6"
    /\ UNCHANGED <<workers, blast_result, args, query, aligner, ambig_flags, alignment, outputs,
                   report, table6>>

LedgerInit ==
    /\ pc = "done"
    /\ workers = <<>>
    /\ blast_result = NoFile
    /\ args = ""
    /\ today = LedgerDates[1]
    /\ query = [defline |-> <<>>, sequence |-> <<>>]
    /\ aligner = <<>>
    /\ alignment = NoFile
    /\ outputs = {}
    /\ table6 = <<>>
    /\ NoObject

LedgerNext == DrawObject \/ UpdateTable6

SpecLedger == LedgerInit /\ [][LedgerNext]_vars

(***************************************************************************)
(* Curation constructed by a caller that may pass a strain name: the       *)
(* profile is then looked up in the profile directory by the name, and     *)
(* Blast is not run.                                                       *)
(***************************************************************************)
\* the strain names a caller passes
StrainNames == {<<"A", "4", "H1">>, <<"A", "4">>}

\* the profile files of the profile directory
ProfileDir == {BlastProfile, <<"A", "4", "H3", "p1">>, <<"B", "4", "HA", "p1">>}

\* Curation.__init__, lines 36-73, with a strain name: os.listdir gives the
\* files in any order, and the first that starts with the name is taken
\* (lines 40-45); the references are parsed (lines 62-63); the screen reads
\* the local identity, which only the branch of lines 48-51 assigns, at line
\* 72: UnboundLocalError, and no attribute of the object is assigned
ClassifyByName ==
    /\ pc = "blast"
    /\ \E name \in StrainNames : \E file \in {f \in ProfileDir : StartsWith(f, name)} :
          /\ strain_name' = name
          /\ profile' = file
          /\ boundary_df' = parse_boundary_file(name, BoundaryFile)
          /\ lookup_df' = parse_lookup_table(file, LookupTable)
    /\ accession' = get_acc_and_seq(query).accession
    /\ del_flags' = <<>> /\ ins_flags' = <<>> /\ sub_flags' = <<>> /\ mut_flags' = <<>>
    /\ ambig_flags' = <<>>
    /\ attrs' = {}
    /\ pc' = "error"
    /\ UNCHANGED <<workers, blast_result, args, today, query, aligner, identity, alignment,
                   outputs, report, table6>>

StrainInit ==
    /\ pc = "query"
    /\ workers = <<>>
    /\ blast_result = NoFile
    /\ args \in Modes
    /\ today \in {d \in Dates : d.day = 2}
    /\ query = [defline |-> <<>>, sequence |-> <<>>]
    /\ aligner = <<>>
    /\ alignment = NoFile
    /\ outputs = {}
    /\ table6 = <<>>
    /\ NoObject

StrainNext == WriteQuery \/ Classify \/ ClassifyByName \/ Align \/ MutationFlags \/ Report

SpecStrain == StrainInit /\ [][StrainNext]_vars

(***************************************************************************)
(* Notions the properties are stated in, read off the alignment file,      *)
(* the boundary table and the whitelist of the state.                      *)
(***************************************************************************)
FlagsComputed == "mut_flags" \in attrs

QueryRow == alignment[Len(alignment)]
ProfileRows == SubSeq(alignment, 1, Len(alignment) - 1)
AllCols == 0..(Len(QueryRow) - 1)

\* I: gap in every profile row, base in the query
InsertionCols ==
    {c \in AllCols : QueryRow[c + 1] # "-" /\ \A k \in 1..Len(ProfileRows) : ProfileRows[k][c + 1] = "-"}
\* D \ A: gap in the query, base in every profile row
DeletionCols ==
    {c \in AllCols : QueryRow[c + 1] = "-" /\ \A k \in 1..Len(ProfileRows) : ProfileRows[k][c + 1] # "-"}

\* the maximal runs <<first, last>> of consecutive columns of S
MaxRuns(S) ==
    {r \in S \X S : /\ r[1] <= r[2]
                    /\ \A c \in r[1]..r[2] : c \in S
                    /\ (r[1] - 1) \notin S
                    /\ (r[2] + 1) \notin S}

\* canonical profile position of a column that is not an insertion column,
\* and the number of profile columns before a column
ProfPos(c) == c - Cardinality({i \in InsertionCols : i < c}) + 1
ProfileColsBefore(c) == Cardinality({i \in AllCols \ InsertionCols : i < c})
BasesBefore(c) == Cardinality({i \in AllCols : i < c /\ QueryRow[i + 1] # "-"})
BasesAfter(c) == Cardinality({i \in AllCols : i > c /\ QueryRow[i + 1] # "-"})

RegionSpan(name) ==
    LET r == CHOOSE x \in {boundary_df[k] : k \in 1..Len(boundary_df)} : x.Region = name
    IN r.Start..r.End
RegionNames == {"CTS5", "NCR5", "CDS", "NCR3", "CTS3"}
ProfileEnd == boundary_df[Len(boundary_df)].End

\* the region a flag label names
KindRegion(kind) ==
    CASE kind \in {"5'CTS-del", "5'CTS-ins", "5'CTS-mut"} -> "CTS5"
      [] kind \in {"5'NCR-del", "5'NCR-ins"} -> "NCR5"
      [] kind \in {"CDS-del", "CDS-3Xdel", "CDS-ins", "CDS-3Xins"} -> "CDS"
      [] kind \in {"3'NCR-del", "3'NCR-ins"} -> "NCR3"
      [] kind \in {"3'CTS-del", "3'CTS-ins", "3'CTS-mut"} -> "CTS3"
      [] OTHER -> "none"

\* the positions a position string "n" or "n..m" reports
Reported(s) == IF Len(s.nums) = 2 THEN s.nums[1]..s.nums[2] ELSE {s.nums[1]}

FlagSet(flags) == {flags[k] : k \in 1..Len(flags)}

\* a deletion run is terminal when the query has no base before it or none after it
TerminalRun(r) == BasesBefore(r[1]) = 0 \/ BasesAfter(r[2]) = 0

\* the regions a deletion run touches, and its profile positions in a region
RunPositions(r) == ProfPos(r[1])..ProfPos(r[2])
RunRegions(r) == {n \in RegionNames : RegionSpan(n) \cap RunPositions(r) # {}}
HasDelFlag(r, n) ==
    \E f \in FlagSet(del_flags) :
        KindRegion(f[1]) = n /\ Reported(f[2]) = RegionSpan(n) \cap RunPositions(r)

(***************************************************************************)
(* C1.  Every 5'CTS-mut flag reports canonical profile positions inside    *)
(* [START, CTS5] and every 3'CTS-mut flag inside [CTS3, END], for every    *)
(* alignment, with any number of insertion runs.                           *)
(***************************************************************************)
C1_CtsMutInsideCts ==
    FlagsComputed =>
        \A f \in FlagSet(sub_flags) : Reported(f[2]) \subseteq RegionSpan(KindRegion(f[1]))

(***************************************************************************)
(* C2.  Every CDS-3Xdel or CDS-3Xins flag has a length that is a positive  *)
(* multiple of 3, and every CDS-del or CDS-ins flag a length that is not a *)
(* multiple of 3, also for deletion runs that straddle a CDS boundary.     *)
(***************************************************************************)
C2_FrameLength ==
    FlagsComputed =>
        \A f \in FlagSet(del_flags) \cup FlagSet(ins_flags) :
            /\ f[1] \in {"CDS-3Xdel", "CDS-3Xins"} => (f[5] > 0 /\ f[5] % 3 = 0)
            /\ f[1] \in {"CDS-del", "CDS-ins"} => f[5] % 3 # 0

(***************************************************************************)
(* C3.  The terminal-truncation rule skips a deletion run exactly when the *)
(* query has no base before the run or no base after it: no deletion flag  *)
(* is emitted for a leading or trailing gap, and no interior run is        *)
(* skipped by the rule (in the CTS regions, where no whitelist applies,    *)
(* every interior run is flagged).                                         *)
(***************************************************************************)
C3_TerminalTruncation ==
    FlagsComputed =>
        LET muts == InDelSubsInit(alignment)
        IN /\ \A g \in 1..Len(muts.del_groups), k \in 1..Len(boundary_df) :
                LET pos == muts.del_groups[g]
                    d == DelRegion(muts, pos, boundary_df[k])
                IN d.selected =>
                      (TerminalSkip(muts, d.region_dels_q)
                          <=> TerminalRun(<<pos[1], pos[Len(pos)]>>))
           /\ \A r \in MaxRuns(DeletionCols) : \A n \in RunRegions(r) :
                /\ TerminalRun(r) => ~HasDelFlag(r, n)
                /\ (~TerminalRun(r) /\ n \in {"CTS5", "CTS3"}) => HasDelFlag(r, n)

\* a leading gap that is skipped beside an interior run that is flagged
C3_Witness ==
    /\ FlagsComputed
    /\ \E r \in MaxRuns(DeletionCols) :
          TerminalRun(r) /\ r[1] = 0 /\ \A n \in RunRegions(r) : ~HasDelFlag(r, n)
    /\ \E r \in MaxRuns(DeletionCols) : ~TerminalRun(r) /\ HasDelFlag(r, "CTS3")

(***************************************************************************)
(* C4.  Every canonical profile position a deletion flag reports lies in   *)
(* the region its kind names, also when the run straddles regions.         *)
(***************************************************************************)
C4_DelInsideRegion ==
    FlagsComputed =>
        \A f \in FlagSet(del_flags) :
            /\ KindRegion(f[1]) \in RegionNames
            /\ Reported(f[2]) \subseteq RegionSpan(KindRegion(f[1]))

C4_Witness ==
    /\ FlagsComputed
    /\ \E r \in MaxRuns(DeletionCols) :
          /\ Cardinality(RunRegions(r)) >= 2
          /\ \A n \in RunRegions(r) : HasDelFlag(r, n)

(***************************************************************************)
(* C5.  An interior deletion sub-run in NCR5, NCR3 or CDS with candidate   *)
(* label F and profile positions p0..pn is emitted iff no whitelist row    *)
(* has label exactly F, start <= p0 and end >= pn; deletions in CTS5 and   *)
(* CTS3 are emitted whatever the whitelist holds.                          *)
(***************************************************************************)
CandidateLabel(r, n) ==
    CASE n = "CTS5" -> "5'CTS-del"
      [] n = "CTS3" -> "3'CTS-del"
      [] n = "NCR5" -> "5'NCR-del"
      [] n = "NCR3" -> "3'NCR-del"
      [] n = "CDS" -> IF (r[2] - r[1] + 1) % 3 = 0 THEN "CDS-3Xdel" ELSE "CDS-del"

Whitelisted(label, ps) ==
    \E row \in lookup_df :
        /\ row.Flag = label
        /\ \A p \in ps : row.Start <= p /\ p <= row.End

EmittedAs(label, ps) ==
    \E f \in FlagSet(del_flags) : f[1] = label /\ Reported(f[2]) = ps

C5_WhitelistExact ==
    FlagsComputed =>
        \A r \in MaxRuns(DeletionCols) : \A n \in RunRegions(r) :
            LET ps == RegionSpan(n) \cap RunPositions(r)
                label == CandidateLabel(r, n)
            IN ~TerminalRun(r) =>
                  IF n \in {"CTS5", "CTS3"}
                  THEN EmittedAs(label, ps)
                  ELSE EmittedAs(label, ps) <=> ~Whitelisted(label, ps)

\* a whitelisted sub-run is suppressed, a sub-run covered only by a row of
\* another label or covered in part only is emitted, and a CTS deletion is
\* emitted although a row with its label covers it
C5_Witness ==
    /\ FlagsComputed
    /\ \E r \in MaxRuns(DeletionCols) : \E n \in RunRegions(r) :
          LET ps == RegionSpan(n) \cap RunPositions(r)
          IN /\ ~TerminalRun(r)
             /\ n = "CDS"
             /\ Whitelisted(CandidateLabel(r, n), ps)
             /\ ~EmittedAs(CandidateLabel(r, n), ps)
    /\ \E r \in MaxRuns(DeletionCols) : \E n \in RunRegions(r) :
          LET ps == RegionSpan(n) \cap RunPositions(r)
          IN /\ ~TerminalRun(r)
             /\ n = "CTS3"
             /\ Whitelisted(CandidateLabel(r, n), ps)
             /\ EmittedAs(CandidateLabel(r, n), ps)

C5_WitnessPartial ==
    /\ FlagsComputed
    /\ \E r \in MaxRuns(DeletionCols) : \E n \in RunRegions(r) :
          LET ps == RegionSpan(n) \cap RunPositions(r)
              label == CandidateLabel(r, n)
          IN /\ ~TerminalRun(r)
             /\ EmittedAs(label, ps)
             /\ \E row \in lookup_df : row.Flag = label /\ row.Start \in ps /\ row.End \in ps
             /\ \E row \in lookup_df :
                   row.Flag # label /\ \A p \in ps : row.Start <= p /\ p <= row.End

(***************************************************************************)
(* C6.  Each maximal run of insertion columns yields exactly one insertion *)
(* flag: 5'NCR-ext with profile_pos "0..1" iff no profile column precedes  *)
(* the run, 3'NCR-ext with profile_pos "END.." iff exactly END profile     *)
(* columns precede it, and otherwise a region flag whose reported profile  *)
(* position p0 satisfies 0 < p0 < END and lies in the region the flag      *)
(* names.                                                                  *)
(***************************************************************************)
\* the k-th maximal run of S in column order
KthRun(S, k) == CHOOSE r \in MaxRuns(S) : Cardinality({x \in MaxRuns(S) : x[1] < r[1]}) = k - 1

C6_OneFlagPerInsertionRun ==
    FlagsComputed =>
        /\ Len(ins_flags) = Cardinality(MaxRuns(InsertionCols))
        /\ \A k \in 1..Len(ins_flags) :
              LET r == KthRun(InsertionCols, k)
                  f == ins_flags[k]
                  n == ProfileColsBefore(r[1])
              IN /\ f[5] = r[2] - r[1] + 1
                 /\ (f[1] = "5'NCR-ext") <=> (n = 0)
                 /\ (n = 0) => f[2] = Str2(0, 1)
                 /\ (f[1] = "3'NCR-ext") <=> (n = ProfileEnd)
                 /\ (n = ProfileEnd) => f[2] = StrOpen(ProfileEnd)
                 /\ (n # 0 /\ n # ProfileEnd) =>
                       /\ f[1] \in {"5'CTS-ins", "5'NCR-ins", "CDS-ins", "CDS-3Xins",
                                    "3'NCR-ins", "3'CTS-ins"}
                       /\ 0 < f[2].nums[1] /\ f[2].nums[1] < ProfileEnd
                       /\ f[2].nums[1] \in RegionSpan(KindRegion(f[1]))
                       /\ f[2].nums[1] = n

\* an extension at each end and an insertion inside a region, in one alignment
C6_Witness ==
    /\ FlagsComputed
    /\ Len(ins_flags) = 3
    /\ ins_flags[1][1] = "5'NCR-ext"
    /\ ins_flags[2][1] = "CDS-ins"
    /\ ins_flags[3][1] = "3'NCR-ext"

(***************************************************************************)
(* C7.  No emitted CTS-mut flag has a variant made only of N: a maximal    *)
(* run of mismatching columns of a scanned CTS window whose query bases    *)
(* are all N or n produces no flag, and a run with at least one other base *)
(* is emitted whole.                                                       *)
(***************************************************************************)
\* the runs of mismatching columns the scan of lines 663-678 hands to the
\* two flag loops, as <<label, first column, last column>>
ScannedRuns ==
    LET muts == InDelSubsInit(alignment)
        w == CtsWindow(muts, boundary_df)
        m5 == CtsMuts(muts, w.CTS5_start_adj, w.CTS5_end_adj, 0)
        m3 == CtsMuts(muts, w.CTS3_start_adj, w.CTS3_end_adj, w.CTS3_start_adj)
    IN {<<"5'CTS-mut", r[1], r[2]>> : r \in MaxRuns(m5)}
       \cup {<<"3'CTS-mut", r[1], r[2]>> : r \in MaxRuns(m3)}

RunBases(r) == [i \in 1..(r[3] - r[2] + 1) |-> QueryRow[r[2] + i]]
OnlyN(bases) == \A i \in 1..Len(bases) : bases[i] \in {"N", "n"}
SubFlagsOf(r) ==
    {f \in FlagSet(sub_flags) : f[1] = r[1] /\ Reported(f[2]) = ProfPos(r[2])..ProfPos(r[3])}

CdsKinds == {"CDS-del", "CDS-3Xdel", "CDS-ins", "CDS-3Xins"}
NcrCtsKinds ==
    {"5'NCR-del", "3'NCR-del", "5'NCR-ins", "3'NCR-ins", "5'NCR-ext", "3'NCR-ext",
     "5'CTS-del", "3'CTS-del", "5'CTS-ins", "3'CTS-ins", "5'CTS-mut", "3'CTS-mut"}
KindsOf(flags) == {flags[k][1] : k \in 1..Len(flags)}
SummaryPrinted == pc = "table6" /\ profile # Unknown /\ args # "mut"

C8_SummaryPrecedence ==
    SummaryPrinted =>
        /\ report.Summary.tag =
              (IF ambig_flags # <<>> THEN "Ambig-Seq"
               ELSE IF KindsOf(mut_flags) \cap CdsKinds # {} THEN "Flag-CDS"
               ELSE IF KindsOf(mut_flags) \cap NcrCtsKinds # {} THEN "Flag-NCR"
               ELSE "Pass")
        /\ (report.Summary.tag = "Pass") <=> (ambig_flags = <<>> /\ mut_flags = <<>>)

\* an ambiguous query with a CDS flag and an NCR or CTS flag
C8_Witness ==
    /\ SummaryPrinted
    /\ ambig_flags # <<>>
    /\ KindsOf(mut_flags) \cap CdsKinds # {}
    /\ KindsOf(mut_flags) \cap NcrCtsKinds # {}
    /\ report.Summary.tag = "Ambig-Seq"

\* a clean query with a CDS flag and an NCR or CTS flag
C8_WitnessCds ==
    /\ SummaryPrinted
    /\ ambig_flags = <<>>
    /\ KindsOf(mut_flags) \cap CdsKinds # {}
    /\ KindsOf(mut_flags) \cap NcrCtsKinds # {}
    /\ report.Summary.tag = "Flag-CDS"

(***************************************************************************)
(* C9: when the classifier returns Unknown, construction stops before the  *)
(* references are loaded, the ambiguity screen is run or the aligner is    *)
(* invoked; mutation_flags, deletion_flags, insertion_flags and            *)
(* substitution_flags return Unknown, ambiguity_flags returns Excess-Dist, *)
(* summary_flag returns Ambig-Seq, none of them fails, and update_table6   *)
(* leaves the ledger as it is.                                             *)
(***************************************************************************)
UnknownObject == profile = Unknown /\ "profile" \in attrs

UnknownState ==
    UnknownObject =>
        /\ pc \notin {"muscle", "muts", "error"}
        /\ attrs = {"profile", "identity", "strain_name", "accession"}
        /\ boundary_df = <<>> /\ lookup_df = <<>>
        /\ mutation_flags(Self) = Text("Unknown")
        /\ get_deletion_flags(Self) = Text("Unknown")
        /\ get_insertion_flags(Self) = Text("Unknown")
        /\ get_substitution_flags(Self) = Text("Unknown")
        /\ ambiguity_flags(Self) = Text("Excess-Dist")
        /\ summary_flag(Self) = Text("Ambig-Seq")
        /\ update_table6(Self, table6, today) = [file |-> table6, raised |-> FALSE]
        /\ pc \in {"table6", "done"} =>
              /\ report.Summary.tag = (IF args = "mut" THEN "-" ELSE "Ambig-Seq")
              /\ report.Ambiguity.tag = (IF args \in {"", "ambig"} THEN "Excess-Dist" ELSE "-")
              /\ report.Mutation.tag = (IF args \in {"", "mut"} THEN "Unknown" ELSE "-")
              /\ report.Insertion.tag = (IF args = "ins" THEN "Unknown" ELSE "-")
              /\ report.Deletion.tag = (IF args = "del" THEN "Unknown" ELSE "-")
              /\ report.Substitution.tag = (IF args = "sub" THEN "Unknown" ELSE "-")

UnknownStep ==
    (profile' = Unknown /\ "profile" \in attrs') =>
        /\ alignment' = alignment
        /\ outputs' = outputs
        /\ table6' = table6
        /\ ambig_flags' = <<>>

C9_UnknownHalts == [](UnknownState) /\ [][UnknownStep]_vars

\* an Unknown query carried to the end of the loop body, with a ledger that
\* has rows and an alignment file of an earlier run in the profile directory
C9_Witness ==
    /\ UnknownObject
    /\ pc = "done"
    /\ report.Summary.tag = "Ambig-Seq"
    /\ report.Ambiguity.tag = "Excess-Dist"
    /\ report.Mutation.tag = "Unknown"
    /\ table6 # <<>>
    /\ alignment = StaleAlignment

(***************************************************************************)
(* C10: for a classified query the alignment is copied to the output       *)
(* directory iff the insertion flag list is empty, which is so iff the     *)
(* alignment has no insertion column; deletion and substitution flags do   *)
(* not change whether it is saved.                                         *)
(***************************************************************************)
SavedFiles == {o \in outputs : o.accession = accession}

C10_SavedIffNoInsertion ==
    FlagsComputed =>
        /\ (SavedFiles # {}) <=> (ins_flags = <<>>)
        /\ (ins_flags = <<>>) <=> (InsertionCols = {})
        /\ \A o \in SavedFiles : o.content = alignment

\* saved with deletion and substitution flags
C10_Witness ==
    /\ FlagsComputed
    /\ del_flags # <<>>
    /\ sub_flags # <<>>
    /\ InsertionCols = {}
    /\ SavedFiles = {[accession |-> accession, content |-> alignment]}

\* not saved with an insertion column
C10_WitnessDiscarded ==
    /\ FlagsComputed
    /\ InsertionCols # {}
    /\ ins_flags # <<>>
    /\ SavedFiles = {}

(***************************************************************************)
(* C11: if the query row of the alignment equals a profile row column for  *)
(* column, the deletion, insertion and CTS-substitution flag lists are all *)
(* empty, whatever the whitelist; with no ambiguity flag the summary is    *)
(* Pass, and the alignment is saved.                                       *)
(***************************************************************************)
QueryIsProfileRow == \E k \in 1..Len(ProfileRows) : ProfileRows[k] = QueryRow

C11_CleanPass ==
    (FlagsComputed /\ QueryIsProfileRow) =>
        /\ del_flags = <<>> /\ ins_flags = <<>> /\ sub_flags = <<>> /\ mut_flags = <<>>
        /\ SavedFiles = {[accession |-> accession, content |-> alignment]}
        /\ (SummaryPrinted /\ ambig_flags = <<>>) => report.Summary.tag = "Pass"

\* a query equal to a profile row that has gaps, inside and at an end, where
\* another profile row has bases
C11_Witness ==
    /\ SummaryPrinted
    /\ QueryIsProfileRow
    /\ \E c \in AllCols : QueryRow[c + 1] = "-" /\ BasesBefore(c) > 0 /\ BasesAfter(c) > 0
    /\ \E c \in AllCols : QueryRow[c + 1] = "-" /\ BasesAfter(c) = 0
    /\ ambig_flags = <<>>
    /\ report.Summary.tag = "Pass"
    /\ SavedFiles # {}

(***************************************************************************)
(* C12: when two queries are processed concurrently by independent         *)
(* workers, the flags a worker reports are always those of the alignment   *)
(* its own aligner run produced for its own query, under every             *)
(* interleaving of the workers' write-query, classify, align and           *)
(* read-alignment steps.                                                   *)
(***************************************************************************)
OwnFlags(w) ==
    LET r == WorkerRecords[workers[w].rec]
        f == FlagsOf(r.muscle, parse_boundary_file(get_strain(r.blast.profile), BoundaryFile),
                     parse_lookup_table(r.blast.profile, LookupTable))
    IN f.del_flags \o f.ins_flags \o f.sub_flags

C12_WorkersOwnFiles ==
    \A w \in DOMAIN workers :
        (workers[w].pc = "done" /\ workers[w].profile # Unknown
            /\ WorkerRecords[workers[w].rec].blast.profile # Unknown)
        => workers[w].mut_flags = OwnFlags(w)

(***************************************************************************)
(* C13: a query whose aligner run exits non-zero or writes no output       *)
(* reports no mutation flag; in particular it never reports flags derived  *)
(* from the alignment file an earlier query left behind.                   *)
(***************************************************************************)
\* the aligner ran for this query and the alignment file is not its output
AlignerFailed ==
    /\ pc \in {"muts", "report", "table6", "done", "error"}
    /\ profile # Unknown
    /\ alignment # aligner

C13_FailedAlignerNoFlags == AlignerFailed => (~FlagsComputed /\ mut_flags = <<>>)

(***************************************************************************)
(* C14: on each call of the ledger updater, every row whose LAST_UPDATED   *)
(* precedes the current calendar month is rolled over before the flags are *)
(* applied - STATUS_THIS_MONTH becomes Unchanged, PAST_MONTH_INCREASE      *)
(* takes the row's CURRENT_MONTH_INCREASE and CURRENT_MONTH_INCREASE       *)
(* becomes 0 - whatever the row's previous status, across any sequence of  *)
(* calls over several months.                                              *)
(***************************************************************************)
\* update_table6 is about to be called and will reach its loop over the flags
UpdaterCalled == pc = "table6" /\ profile # Unknown /\ mut_flags # <<>>

\* the table as the loop over the flags finds it
TableBeforeFlags == Rollover(read_csv(table6), today)

C14_RolloverEveryPastRow ==
    UpdaterCalled =>
        \A k \in 1..Len(table6) :
            table6[k].LAST_UPDATED.month < today.month =>
                /\ TableBeforeFlags[k].STATUS_THIS_MONTH = "Unchanged"
                /\ TableBeforeFlags[k].PAST_MONTH_INCREASE = <<table6[k].CURRENT_MONTH_INCREASE>>
                /\ TableBeforeFlags[k].CURRENT_MONTH_INCREASE = 0

(***************************************************************************)
(* C15: after any sequence of ledger updates from an empty ledger, every   *)
(* row's ACCESSION_TOTAL is the number of distinct accessions of its       *)
(* ACCESSION_LIST; a flag matching an existing row increments              *)
(* ACCESSION_TOTAL and CURRENT_MONTH_INCREASE by exactly 1 and adds the    *)
(* accession when the accession is new, and leaves the row's counters,     *)
(* accession list and MUTATION_SUM unchanged when the accession is already *)
(* listed.                                                                 *)
(***************************************************************************)
TotalIsListSize ==
    \A k \in 1..Len(table6) :
        table6[k].ACCESSION_TOTAL = Cardinality(Range(table6[k].ACCESSION_LIST))

\* the match key of a flag of the object is the match key of a ledger row
KeyMatch(row, flag) ==
    /\ row.PROFILE_NAME = profile
    /\ row.FLU_SUBTYPE = strain_name
    /\ row.AUTO_ALIGNMENT_ISSUE = flag[1]
    /\ IsExt(flag) \/ (row.POS_PROFILE.s = flag[2] /\ ~row.POS_PROFILE.frac)

\* the call of update_table6 leaves a row of the key of the flag with these
\* counters and this accession list
LeavesRow(flag, total, current, list) ==
    \E j \in 1..Len(table6') :
        /\ KeyMatch(table6'[j], flag)
        /\ table6'[j].ACCESSION_TOTAL = total
        /\ table6'[j].CURRENT_MONTH_INCREASE = current
        /\ table6'[j].ACCESSION_LIST = list

MatchedFlagCounts ==
    UpdaterCalled =>
        \A i \in 1..Len(mut_flags) : \A k \in 1..Len(table6) :
            KeyMatch(table6[k], mut_flags[i]) =>
                LET row == TableBeforeFlags[k]
                IN IF accession \in Range(row.ACCESSION_LIST)
                   THEN /\ LeavesRow(mut_flags[i], row.ACCESSION_TOTAL,
                                     row.CURRENT_MONTH_INCREASE, row.ACCESSION_LIST)
                        /\ \E j \in 1..Len(table6') :
                              /\ KeyMatch(table6'[j], mut_flags[i])
                              /\ table6'[j].MUTATION_SUM = row.MUTATION_SUM
                   ELSE LeavesRow(mut_flags[i], row.ACCESSION_TOTAL + 1,
                                  row.CURRENT_MONTH_INCREASE + 1,
                                  AddAccession(row.ACCESSION_LIST, accession))

C15_TotalsFollowAccessions == [](TotalIsListSize) /\ [][MatchedFlagCounts]_vars

(***************************************************************************)
(* C18: after any sequence of ledger updates from a ledger whose rows have *)
(* distinct match keys, no two rows share (PROFILE_NAME, FLU_SUBTYPE,      *)
(* AUTO_ALIGNMENT_ISSUE, POS_PROFILE), and for each of 5'NCR-ext and       *)
(* 3'NCR-ext there is at most one row per (PROFILE_NAME, FLU_SUBTYPE)      *)
(* whatever the positions of the extensions.                               *)
(***************************************************************************)
SameKey(a, b) ==
    /\ a.PROFILE_NAME = b.PROFILE_NAME
    /\ a.FLU_SUBTYPE = b.FLU_SUBTYPE
    /\ a.AUTO_ALIGNMENT_ISSUE = b.AUTO_ALIGNMENT_ISSUE
    /\ \/ a.AUTO_ALIGNMENT_ISSUE \in {"5'NCR-ext", "3'NCR-ext"}
       \/ a.POS_PROFILE = b.POS_PROFILE

C18_DistinctMatchKeys ==
    \A j \in 1..Len(table6) : \A k \in 1..Len(table6) :
        SameKey(table6[j], table6[k]) => j = k

(***************************************************************************)
(* C16: the profile_pos of every deletion flag is the single position      *)
(* "p0" when the flag's length is 1, and the range "p0..pn" with           *)
(* pn - p0 + 1 = length otherwise; this holds as well for the flags of the *)
(* parts of a run that straddles a region boundary.                        *)
(***************************************************************************)
C16_DelPositionForm ==
    FlagsComputed =>
        \A k \in 1..Len(del_flags) :
            LET pos == del_flags[k][2]
                length == del_flags[k][5]
            IN IF length = 1
               THEN ~pos.dots /\ Len(pos.nums) = 1
               ELSE /\ pos.dots
                    /\ Len(pos.nums) = 2
                    /\ pos.nums[2] - pos.nums[1] + 1 = length

(***************************************************************************)
(* C17: when a strain name is passed to Curation, the classifier is not    *)
(* invoked, the profile is a file of the profile directory whose name      *)
(* starts with the strain name, and the construction completes: no error   *)
(* state is reached on this path when the profile, boundary and lookup     *)
(* files exist.                                                            *)
(***************************************************************************)
\* the constructor was given a strain name: it went past the choice of the
\* profile without a Blast result being written
StrainNamePassed == pc \notin {"query", "blast"} /\ blast_result = NoFile

C17_StrainNameCompletes ==
    StrainNamePassed =>
        /\ profile \in ProfileDir
        /\ StartsWith(profile, strain_name)
        /\ pc # "error"

====
